---- MODULE Spec2Model ----
(***************************************************************************)
(* A model of the clevergo Router (router.go): route registration         *)
(* (Handle, HandleFunc and the method shortcuts), the parameter buffer    *)
(* pool, Lookup, and the dispatch policy of ServeHTTP (handler, redirect, *)
(* automatic OPTIONS reply, 405, 404).                                     *)
(*                                                                         *)
(* Paths are sequences of one-character strings, so that prefixes, the     *)
(* trailing slash and the wildcard markers ':' and '*' are what they are   *)
(* in the program.  The per-method trie (node.addRoute, node.getValue,     *)
(* node.findCaseInsensitivePath), CleanPath, countParams and newRoute are  *)
(* not part of router.go; they are modelled from the design document: a    *)
(* trie is the set of routes inserted into it, and a lookup is the match   *)
(* of the request path against those routes.                               *)
(***************************************************************************)
EXTENDS Naturals, Sequences, FiniteSets, TLC

VARIABLES
    r,        \* the Router struct: trees, routes, maxParams, options, ...
    pool,     \* r.paramsPool: the buffers currently stored in the sync.Pool
    bufs,     \* the heap: every live Params buffer (capacity, backing array)
    pc,       \* per request slot: "idle" or "handler" (route handler running)
    ctx,      \* per request slot: the Params slice header bound to the request context
    resp,     \* per request slot: what ServeHTTP did for the slot's last request
    last,     \* the last call made on the router and how it ended
    serving,  \* a Lookup or ServeHTTP call has been made
    lateReg   \* a registration call has been made after serving began

vars == <<r, pool, bufs, pc, ctx, resp, last, serving, lateReg>>

(***************************************************************************)
(* Bounds of the model.                                                    *)
(***************************************************************************)
MaxRoutes == 2      \* successful registrations per router
MaxInFlight == 2    \* request slots (concurrent ServeHTTP calls)
MaxBufs == 2        \* live Params buffers
MaxTrees == 3       \* per-method tries per router

Slots == 1..MaxInFlight
BufIds == 1..MaxBufs

(***************************************************************************)
(* net/http constants used by router.go.                                   *)
(***************************************************************************)
MethodGet == "GET"
MethodHead == "HEAD"
MethodPost == "POST"
MethodPut == "PUT"
MethodPatch == "PATCH"
MethodDelete == "DELETE"
MethodConnect == "CONNECT"
MethodOptions == "OPTIONS"

StatusMovedPermanently == 301
StatusPermanentRedirect == 308
StatusNotFound == 404
StatusMethodNotAllowed == 405

\* Go's byte-wise string order on the method names the model uses (and the
\* empty string, which sorts first): a name's place in this ascending list.
MethodOrder ==
    <<"", "CONNECT", "DELETE", "GET", "HEAD", "OPTIONS", "PATCH", "POST", "PUT">>

Rank(m) == CHOOSE i \in 1..Len(MethodOrder) : MethodOrder[i] = m

StrLess(a, b) == Rank(a) < Rank(b)

(***************************************************************************)
(* Paths.                                                                  *)
(***************************************************************************)
Slash == "/"

IsWild(c) == c \in {":", "*"}

\* The index of the first '/' of s at or after i, Len(s)+1 if there is none.
RECURSIVE SegEnd(_, _)
SegEnd(s, i) ==
    IF i > Len(s) \/ s[i] = Slash THEN i ELSE SegEnd(s, i + 1)

\* strings.ToLower / unicode folding on the letters the model uses.
Fold(c) == IF c = "A" THEN "a" ELSE IF c = "B" THEN "b" ELSE c

\* countParams: the number of wildcard markers of a pattern.
countParams(path) ==
    Cardinality({i \in 1..Len(path) : IsWild(path[i])})

\* The path a trailing-slash toggle of the lookup lands on: without its final
\* '/' if it has one, with a '/' appended otherwise.
TsrPath(path) ==
    IF Len(path) > 0 /\ path[Len(path)] = Slash
    THEN SubSeq(path, 1, Len(path) - 1)
    ELSE path \o <<Slash>>

(***************************************************************************)
(* Routes and tries.                                                       *)
(***************************************************************************)
NilHandler == "nil"

NoRoute == [path |-> <<>>, name |-> "", handler |-> NilHandler]

\* newRoute: a route of the pattern and handler with the options applied in
\* order; the only option the model knows is the route name.
newRoute(path, handler, opts) ==
    [path |-> path,
     name |-> IF opts = <<>> THEN "" ELSE opts[Len(opts)],
     handler |-> handler]

\* The match of pattern pat from index i against path from index j:
\* ok, and the parameters bound left to right.
RECURSIVE MatchFrom(_, _, _, _)
MatchFrom(pat, i, path, j) ==
    IF i > Len(pat)
    THEN [ok |-> j > Len(path), ps |-> <<>>]
    ELSE IF pat[i] = ":"
    THEN LET ie == SegEnd(pat, i)
             je == SegEnd(path, j)
         IN  IF je = j
             THEN [ok |-> FALSE, ps |-> <<>>]
             ELSE LET rest == MatchFrom(pat, ie, path, je)
                  IN  [ok |-> rest.ok,
                       ps |-> <<[Key |-> SubSeq(pat, i + 1, ie - 1),
                                 Value |-> SubSeq(path, j, je - 1)]>> \o rest.ps]
    ELSE IF pat[i] = "*"
    THEN [ok |-> TRUE,
          ps |-> <<[Key |-> SubSeq(pat, i + 1, Len(pat)),
                    Value |-> SubSeq(path, j - 1, Len(path))]>>]
    ELSE IF j <= Len(path) /\ path[j] = pat[i]
    THEN MatchFrom(pat, i + 1, path, j + 1)
    ELSE [ok |-> FALSE, ps |-> <<>>]

Matches(pat, path) == MatchFrom(pat, 1, path, 1).ok

\* The index of the first wildcard marker of a pattern, 0 if it has none.
FirstWild(pat) ==
    IF \E i \in 1..Len(pat) : IsWild(pat[i])
    THEN CHOOSE i \in 1..Len(pat) :
            IsWild(pat[i]) /\ \A k \in 1..(i - 1) : ~IsWild(pat[k])
    ELSE 0

\* The walk reaches a wildcard child with path left to consume: this is
\* where the lookup asks for its Params buffer.
ReachesWild(pat, path) ==
    LET k == FirstWild(pat)
    IN  /\ k > 0
        /\ Len(path) >= k
        /\ SubSeq(path, 1, k - 1) = SubSeq(pat, 1, k - 1)

\* node.getValue: the route whose pattern matches the path, its parameters,
\* whether the walk asked for a Params buffer, and the trailing-slash hint
\* (no match, but the path with its trailing slash toggled has one).
getValue(tree, path) ==
    LET hits == {rt \in tree : Matches(rt.path, path)}
    IN  IF hits # {}
        THEN LET rt == CHOOSE x \in hits : TRUE
                 m == MatchFrom(rt.path, 1, path, 1)
             IN  [route |-> rt, ps |-> m.ps, got |-> m.ps # <<>>, tsr |-> FALSE]
        ELSE [route |-> NoRoute,
              ps |-> <<>>,
              got |-> \E rt \in tree : ReachesWild(rt.path, path),
              tsr |-> \E rt \in tree : Matches(rt.path, TsrPath(path))]

\* Two patterns of one trie clash when, after a common prefix, one has a
\* wildcard where the other has a static byte or a wildcard of another name.
RECURSIVE Clash(_, _, _)
Clash(p, q, i) ==
    IF i > Len(p) \/ i > Len(q)
    THEN FALSE
    ELSE IF IsWild(p[i]) \/ IsWild(q[i])
    THEN LET ie == SegEnd(p, i)
             je == SegEnd(q, i)
         IN  IF SubSeq(p, i, ie - 1) = SubSeq(q, i, je - 1)
             THEN Clash(p, q, ie)
             ELSE TRUE
    ELSE IF p[i] = q[i]
    THEN Clash(p, q, i + 1)
    ELSE FALSE

\* node.addRoute's verdict on inserting a pattern: "" when it is accepted.
addRouteError(tree, path) ==
    IF \E rt \in tree : rt.path = path
    THEN "DuplicateRoute"
    ELSE IF \E i \in 1..Len(path) : path[i] = "*" /\ SegEnd(path, i) <= Len(path)
    THEN "InvalidCatchAllPosition"
    ELSE IF \E rt \in tree : Clash(path, rt.path, 1)
    THEN "WildcardConflict"
    ELSE ""

\* node.addRoute on an accepted pattern.
addRoute(tree, route) == tree \cup {route}

\* CleanPath: '//' collapsed, '.' dropped, '..' resolved lexically; the result
\* begins with '/', and keeps a trailing '/' the input had when more than the
\* root is left.
RECURSIVE CleanFrom(_, _, _)
CleanFrom(p, i, stack) ==
    IF i > Len(p)
    THEN stack
    ELSE IF p[i] = Slash
    THEN CleanFrom(p, i + 1, stack)
    ELSE LET e == SegEnd(p, i)
             seg == SubSeq(p, i, e - 1)
         IN  IF seg = <<".">>
             THEN CleanFrom(p, e, stack)
             ELSE IF seg = <<".", ".">>
             THEN CleanFrom(p, e, IF stack = <<>> THEN stack
                                  ELSE SubSeq(stack, 1, Len(stack) - 1))
             ELSE CleanFrom(p, e, Append(stack, seg))

RECURSIVE JoinSegs(_, _)
JoinSegs(stack, k) ==
    IF k > Len(stack) THEN <<>>
    ELSE <<Slash>> \o stack[k] \o JoinSegs(stack, k + 1)

CleanPath(p) ==
    LET body == JoinSegs(CleanFrom(p, 1, <<>>), 1)
        n == Len(p)
        trailing == n > 1 /\ (p[n] = Slash \/ (p[n] = "." /\ p[n - 1] = Slash))
    IN  IF body = <<>> THEN <<Slash>>
        ELSE IF trailing THEN body \o <<Slash>>
        ELSE body

\* The case-insensitive match of a pattern against a path: ok, and the path
\* rebuilt with the pattern's casing for static bytes and the request's bytes
\* for wildcard values.
RECURSIVE FixFrom(_, _, _, _)
FixFrom(pat, i, path, j) ==
    IF i > Len(pat)
    THEN [ok |-> j > Len(path), out |-> <<>>]
    ELSE IF pat[i] = ":"
    THEN LET ie == SegEnd(pat, i)
             je == SegEnd(path, j)
         IN  IF je = j
             THEN [ok |-> FALSE, out |-> <<>>]
             ELSE LET rest == FixFrom(pat, ie, path, je)
                  IN  [ok |-> rest.ok, out |-> SubSeq(path, j, je - 1) \o rest.out]
    ELSE IF pat[i] = "*"
    THEN [ok |-> TRUE, out |-> SubSeq(path, j, Len(path))]
    ELSE IF j <= Len(path) /\ Fold(path[j]) = Fold(pat[i])
    THEN LET rest == FixFrom(pat, i + 1, path, j + 1)
         IN  [ok |-> rest.ok, out |-> <<pat[i]>> \o rest.out]
    ELSE [ok |-> FALSE, out |-> <<>>]

\* node.findCaseInsensitivePath: the corrected path and whether one exists;
\* with fixTrailingSlash one trailing-slash toggle is tried as a last resort.
findCaseInsensitivePath(tree, path, fixTrailingSlash) ==
    LET direct == {rt \in tree : FixFrom(rt.path, 1, path, 1).ok}
        toggled == {rt \in tree : FixFrom(rt.path, 1, TsrPath(path), 1).ok}
    IN  IF direct # {}
        THEN [path |-> FixFrom((CHOOSE x \in direct : TRUE).path, 1, path, 1).out,
              found |-> TRUE]
        ELSE IF fixTrailingSlash /\ toggled # {}
        THEN [path |-> FixFrom((CHOOSE x \in toggled : TRUE).path, 1,
                               TsrPath(path), 1).out,
              found |-> TRUE]
        ELSE [path |-> <<>>, found |-> FALSE]

(***************************************************************************)
(* Router.allowed.                                                         *)
(***************************************************************************)
Star == <<"*">>

\* The inner loop of the insertion sort: a[j] sinks while it is less than
\* its left neighbour.
RECURSIVE SinkDown(_, _)
SinkDown(a, j) ==
    IF j > 1 /\ StrLess(a[j], a[j - 1])
    THEN SinkDown([a EXCEPT ![j] = a[j - 1], ![j - 1] = a[j]], j - 1)
    ELSE a

RECURSIVE SortFrom(_, _)
SortFrom(a, i) ==
    IF i > Len(a) THEN a ELSE SortFrom(SinkDown(a, i), i + 1)

\* The sort with its outer loop started one entry late.
InsertionSortLate(a) == SortFrom(a, 3)

\* The insertion sort of allowed (the outer loop starts at the second entry).
InsertionSort(a) == SortFrom(a, 2)

\* strings.Join(list, ", ")
RECURSIVE JoinFrom(_, _)
JoinFrom(list, k) ==
    IF k > Len(list) THEN ""
    ELSE IF k = Len(list) THEN list[k]
    ELSE list[k] \o ", " \o JoinFrom(list, k + 1)

Join(list) == JoinFrom(list, 1)

\* The tail of allowed without the append of OPTIONS.
FinishAllowedNoOptions(list) ==
    IF Len(list) > 0 THEN Join(InsertionSort(list)) ELSE ""

\* The tail of allowed: a non-empty list gets OPTIONS appended, is sorted and
\* joined; an empty one yields the empty string.
FinishAllowed(list) ==
    IF Len(list) > 0
    THEN Join(InsertionSort(Append(list, MethodOptions)))
    ELSE ""

\* The methods "range r.trees" visits, in the order the map iteration takes.
RangeTrees(rr, order) ==
    LET InTrees(m) == m \in DOMAIN rr.trees
    IN  SelectSeq(order, InTrees)

\* allowed answering every path from the server-wide cache.
allowedServerWide(rr, path, reqMethod, order) ==
    IF reqMethod = ""
    THEN LET NotOptions(m) == m # MethodOptions
         IN  FinishAllowed(SelectSeq(RangeTrees(rr, order), NotOptions))
    ELSE rr.globalAllowed

\* Router.allowed(path, reqMethod); order is the map's iteration order.
allowed(rr, path, reqMethod, order) ==
    IF path = Star
    THEN IF reqMethod = ""
         THEN LET NotOptions(m) == m # MethodOptions
              IN  FinishAllowed(SelectSeq(RangeTrees(rr, order), NotOptions))
         ELSE rr.globalAllowed
    ELSE LET Other(m) ==
                 /\ ~(m = reqMethod \/ m = MethodOptions)
                 /\ getValue(rr.trees[m], path).route # NoRoute
         IN  FinishAllowed(SelectSeq(RangeTrees(rr, order), Other))

\* Every order in which a map with key set S can be iterated.
RECURSIVE Orders(_)
Orders(S) ==
    IF S = {} THEN {<<>>}
    ELSE UNION {{<<x>> \o o : o \in Orders(S \ {x})} : x \in S}

(***************************************************************************)
(* The Router and its registration methods.                                *)
(***************************************************************************)
\* NewRouter: path auto-correction and the fallbacks are enabled.
NewRouter ==
    [trees |-> [m \in {} |-> {}],
     routes |-> [n \in {} |-> NoRoute],
     maxParams |-> 0,
     poolNew |-> FALSE,
     globalAllowed |-> "",
     SaveMatchedRoute |-> FALSE,
     RedirectTrailingSlash |-> TRUE,
     RedirectFixedPath |-> TRUE,
     HandleMethodNotAllowed |-> TRUE,
     HandleOPTIONS |-> TRUE,
     GlobalOPTIONS |-> FALSE,
     NotFound |-> FALSE,
     MethodNotAllowed |-> FALSE]

\* f with key k set to v (a Go map assignment).
MapSet(f, k, v) ==
    [x \in DOMAIN f \cup {k} |-> IF x = k THEN v ELSE f[x]]

\* The trie created, with the cache refreshed before the trie is in the map.
EnsureTreeStale(rr, method, order) ==
    IF method \in DOMAIN rr.trees
    THEN rr
    ELSE [rr EXCEPT !.trees = MapSet(rr.trees, method, {}),
                    !.globalAllowed = allowed(rr, Star, "", order)]

\* Handle, the trie of the method: created on first use, and the cached
\* server-wide Allow value refreshed once it is in the map.
EnsureTree(rr, method, order) ==
    IF method \in DOMAIN rr.trees
    THEN rr
    ELSE LET r1 == [rr EXCEPT !.trees = MapSet(rr.trees, method, {})]
         IN  [r1 EXCEPT !.globalAllowed = allowed(r1, Star, "", order)]

\* Handle, the named-route registry: a named route is entered.
RegisterName(rr, route) ==
    IF route.name # ""
    THEN [rr EXCEPT !.routes = MapSet(rr.routes, route.name, route)]
    ELSE rr

\* Handle, root.addRoute on an accepted pattern.
InsertRoute(rr, method, route) ==
    [rr EXCEPT !.trees[method] = addRoute(rr.trees[method], route)]

\* Handle, "Update maxParams".
UpdateMaxParams(rr, path) ==
    IF countParams(path) > rr.maxParams
    THEN [rr EXCEPT !.maxParams = countParams(path)]
    ELSE rr

\* Handle, "Lazy-init paramsPool alloc func".
InitPool(rr) ==
    IF ~rr.poolNew /\ rr.maxParams > 0
    THEN [rr EXCEPT !.poolNew = TRUE]
    ELSE rr

\* Router.Handle: the router after the call and the panic that ended it
\* ("" when it returned).  A panic keeps what the call had already written.
HandleResult(rr, method, path, handler, opts, order) ==
    IF method = ""
    THEN [r |-> rr, err |-> "method must not be empty"]
    ELSE IF Len(path) < 1 \/ path[1] # Slash
    THEN [r |-> rr, err |-> "path must begin with '/'"]
    ELSE LET r1 == EnsureTree(rr, method, order)
             route == newRoute(path, handler, opts)
         IN  IF route.name # "" /\ route.name \in DOMAIN r1.routes
             THEN [r |-> r1, err |-> "route name is already registered"]
             ELSE LET r2 == RegisterName(r1, route)
                      e == addRouteError(r2.trees[method], path)
                  IN  IF e # ""
                      THEN [r |-> r2, err |-> e]
                      ELSE [r |-> InitPool(UpdateMaxParams(
                                      InsertRoute(r2, method, route), path)),
                            err |-> ""]

\* Router.HandleFunc
HandleFuncResult(rr, method, path, handle, opts, order) ==
    IF handle = NilHandler
    THEN [r |-> rr, err |-> "handle must not be nil"]
    ELSE HandleResult(rr, method, path, handle, opts, order)

\* The shortcuts Get, Head, Options, Post, Put, Patch and Delete.
GetResult(rr, path, handle, opts, order) ==
    HandleFuncResult(rr, MethodGet, path, handle, opts, order)

HeadResult(rr, path, handle, opts, order) ==
    HandleFuncResult(rr, MethodHead, path, handle, <<>>, order)

OptionsResult(rr, path, handle, opts, order) ==
    HandleFuncResult(rr, MethodOptions, path, handle, <<>>, order)

PostResult(rr, path, handle, opts, order) ==
    HandleFuncResult(rr, MethodPost, path, handle, <<>>, order)

PutResult(rr, path, handle, opts, order) ==
    HandleFuncResult(rr, MethodPut, path, handle, <<>>, order)

PatchResult(rr, path, handle, opts, order) ==
    HandleFuncResult(rr, MethodPatch, path, handle, <<>>, order)

DeleteResult(rr, path, handle, opts, order) ==
    HandleFuncResult(rr, MethodDelete, path, handle, <<>>, order)

(***************************************************************************)
(* The Params buffer pool.                                                 *)
(***************************************************************************)
NoBuf == [live |-> FALSE, cap |-> 0, data |-> <<>>]

NoCtx == [buf |-> 0, len |-> 0]

NoChoice == [buf |-> 0, fresh |-> FALSE]

Max(a, b) == IF a > b THEN a ELSE b

FreeIds(bb) == {b \in BufIds : ~bb[b].live}

\* paramsPool.Get(): a buffer stored in the pool, or, the pool's New function
\* being set, a new one (the lowest free id stands for the new allocation).
GetChoices(rr, pl, bb) ==
    {[buf |-> b, fresh |-> FALSE] : b \in pl}
    \cup {[buf |-> b, fresh |-> TRUE] :
            b \in {x \in FreeIds(bb) : rr.poolNew /\ \A y \in FreeIds(bb) : x <= y}}

\* getParams: the buffer handed out (a new one has capacity r.maxParams); the
\* reset to [0:0] keeps the backing array and its old contents.
getParams(rr, bb, c) ==
    IF c.fresh
    THEN [live |-> TRUE, cap |-> rr.maxParams, data |-> <<>>]
    ELSE bb[c.buf]

\* The lookup appends its parameters to the buffer from index 0.
WriteParams(buf, ps) ==
    [live |-> TRUE,
     cap |-> Max(buf.cap, Len(ps)),
     data |-> ps \o SubSeq(buf.data, Len(ps) + 1, Len(buf.data))]

\* putParams: the buffer goes back into the pool.
putParams(pl, b) == pl \cup {b}

\* The garbage collector: a buffer neither in the pool nor referenced by a
\* request context is gone.
Collect(bb, pl, cx) ==
    [b \in BufIds |->
        IF b \in pl \/ \E s \in Slots : cx[s].buf = b THEN bb[b] ELSE NoBuf]

(***************************************************************************)
(* Router.ServeHTTP: the dispatch policy.                                  *)
(***************************************************************************)
NoResp ==
    [method |-> "", path |-> <<>>, outcome |-> "none", code |-> 0,
     via |-> "", location |-> <<>>, allow |-> "", called |-> "", route |-> NoRoute,
     saved |-> NoRoute, params |-> <<>>, seen |-> <<>>]

NoLookup == [route |-> NoRoute, ps |-> <<>>, got |-> FALSE, tsr |-> FALSE]

\* root.getValue(path, r.getParams) on the trie of the request method, when
\* there is one.
LookupIn(rr, method, path) ==
    IF method \in DOMAIN rr.trees
    THEN getValue(rr.trees[method], path)
    ELSE NoLookup

\* The toggle that only ever appends a slash.
ToggleSlashAppend(path) == path \o <<Slash>>

\* The request path with its trailing slash toggled, as ServeHTTP sets it
\* for the redirect.
ToggleSlash(path) ==
    IF Len(path) > 1 /\ path[Len(path)] = Slash
    THEN SubSeq(path, 1, Len(path) - 1)
    ELSE path \o <<Slash>>

\* The redirect status: 301 for GET, 308 for every other method.
RedirectCode(method) ==
    IF method # MethodGet THEN StatusPermanentRedirect ELSE StatusMovedPermanently

\* The redirecting branch entered for GET requests only.
RedirectBranchGetOnly(rr, method, path) ==
    /\ method \in DOMAIN rr.trees
    /\ method = MethodGet
    /\ path # <<Slash>>

\* The branch of ServeHTTP that may redirect is entered.
RedirectBranch(rr, method, path) ==
    /\ method \in DOMAIN rr.trees
    /\ method # MethodConnect
    /\ path # <<Slash>>

\* The fallbacks after lookup and redirects, with the two switches that
\* guard them: the automatic OPTIONS reply, the 405 policy, the 404 policy.
FallbackWith(rr, method, path, order, tryOptions, try405) ==
    LET base == [NoResp EXCEPT !.method = method, !.path = path]
        notFound == [base EXCEPT !.outcome = "404",
                                 !.code = StatusNotFound,
                                 !.called = IF rr.NotFound THEN "NotFound"
                                            ELSE "http.NotFound"]
    IN  IF tryOptions
        THEN LET allow == allowed(rr, path, MethodOptions, order)
             IN  IF allow # ""
                 THEN [base EXCEPT !.outcome = "options",
                                   !.allow = allow,
                                   !.called = IF rr.GlobalOPTIONS
                                              THEN "GlobalOPTIONS" ELSE ""]
                 ELSE notFound
        ELSE IF try405
        THEN LET allow == allowed(rr, path, method, order)
             IN  IF allow # ""
                 THEN [base EXCEPT !.outcome = "405",
                                   !.code = StatusMethodNotAllowed,
                                   !.allow = allow,
                                   !.called = IF rr.MethodNotAllowed
                                              THEN "MethodNotAllowed"
                                              ELSE "http.Error"]
                 ELSE notFound
        ELSE notFound

\* The fallbacks with the 405 policy tried whatever HandleMethodNotAllowed says.
FallbackAlways405(rr, method, path, order) ==
    FallbackWith(rr, method, path, order,
                 method = MethodOptions /\ rr.HandleOPTIONS, TRUE)

\* The fallbacks of ServeHTTP: an OPTIONS request with HandleOPTIONS enabled
\* takes the automatic reply; any other request the 405 policy when
\* HandleMethodNotAllowed is enabled.
Fallback(rr, method, path, order) ==
    FallbackWith(rr, method, path, order,
                 method = MethodOptions /\ rr.HandleOPTIONS,
                 rr.HandleMethodNotAllowed)

\* What ServeHTTP answers to (method, path); for a matched route, the state
\* in which the route's handler is invoked.
ServeHTTPResponse(rr, method, path, order) ==
    LET gv == LookupIn(rr, method, path)
        base == [NoResp EXCEPT !.method = method, !.path = path]
    IN  IF gv.route # NoRoute
        THEN [base EXCEPT !.outcome = "handler",
                          !.called = gv.route.handler,
                          !.route = gv.route,
                          !.saved = IF rr.SaveMatchedRoute THEN gv.route ELSE NoRoute,
                          !.params = gv.ps]
        ELSE IF RedirectBranch(rr, method, path)
                /\ gv.tsr /\ rr.RedirectTrailingSlash
        THEN [base EXCEPT !.outcome = "redirect",
                          !.via = "trailing-slash",
                          !.code = RedirectCode(method),
                          !.location = ToggleSlash(path)]
        ELSE IF /\ RedirectBranch(rr, method, path)
                /\ rr.RedirectFixedPath
                /\ findCaseInsensitivePath(rr.trees[method], CleanPath(path),
                                           rr.RedirectTrailingSlash).found
        THEN [base EXCEPT !.outcome = "redirect",
                          !.via = "fixed-path",
                          !.code = RedirectCode(method),
                          !.location =
                              findCaseInsensitivePath(rr.trees[method],
                                  CleanPath(path), rr.RedirectTrailingSlash).path]
        ELSE Fallback(rr, method, path, order)

(***************************************************************************)
(* The state and the calls.                                                *)
(***************************************************************************)
NoCall ==
    [op |-> "", opts |-> <<>>, err |-> "",
     found |-> FALSE, tsr |-> FALSE, got |-> FALSE, cap |-> 0]

Idle == \A s \in Slots : pc[s] = "idle"

RouteCount(rr) ==
    Cardinality({<<m, rt>> \in (DOMAIN rr.trees) \X UNION {rr.trees[m] : m \in DOMAIN rr.trees} :
                    rt \in rr.trees[m]})

\* The state after construction, with the exported options set as cfg says.
InitWith(cfg) ==
    /\ r = [NewRouter EXCEPT
                !.RedirectTrailingSlash = cfg.RedirectTrailingSlash,
                !.RedirectFixedPath = cfg.RedirectFixedPath,
                !.HandleMethodNotAllowed = cfg.HandleMethodNotAllowed,
                !.HandleOPTIONS = cfg.HandleOPTIONS,
                !.SaveMatchedRoute = cfg.SaveMatchedRoute,
                !.GlobalOPTIONS = cfg.GlobalOPTIONS,
                !.NotFound = cfg.NotFound,
                !.MethodNotAllowed = cfg.MethodNotAllowed]
    /\ pool = {}
    /\ bufs = [b \in BufIds |-> NoBuf]
    /\ pc = [s \in Slots |-> "idle"]
    /\ ctx = [s \in Slots |-> NoCtx]
    /\ resp = [s \in Slots |-> NoResp]
    /\ last = NoCall
    /\ serving = FALSE
    /\ lateReg = FALSE

DefaultConfig ==
    [RedirectTrailingSlash |-> TRUE, RedirectFixedPath |-> TRUE,
     HandleMethodNotAllowed |-> TRUE, HandleOPTIONS |-> TRUE,
     SaveMatchedRoute |-> FALSE, GlobalOPTIONS |-> FALSE,
     NotFound |-> FALSE, MethodNotAllowed |-> FALSE]

\* The iteration orders a registration call for the method can meet: the map
\* is iterated only when the call creates the method's trie.
RefreshOrders(rr, method) ==
    IF method = "" \/ method \in DOMAIN rr.trees
    THEN {<<>>}
    ELSE Orders(DOMAIN rr.trees \cup {method})

\* A registration call ended as res says.
Registered(op, opts, res) ==
    /\ r' = res.r
    /\ last' = [NoCall EXCEPT !.op = op, !.opts = opts, !.err = res.err]
    /\ lateReg' = (lateReg \/ serving)
    /\ UNCHANGED <<pool, bufs, pc, ctx, resp, serving>>

Handle(method, path, handler, opts) ==
    \E order \in RefreshOrders(r, method) :
        Registered("Handle", opts,
                   HandleResult(r, method, path, handler, opts, order))

HandleFunc(method, path, handle, opts) ==
    \E order \in RefreshOrders(r, method) :
        Registered("HandleFunc", opts,
                   HandleFuncResult(r, method, path, handle, opts, order))

RouterGet(path, handle, opts) ==
    \E order \in RefreshOrders(r, MethodGet) :
        Registered("Get", opts,
                   GetResult(r, path, handle, opts, order))

RouterHead(path, handle, opts) ==
    \E order \in RefreshOrders(r, MethodHead) :
        Registered("Head", opts,
                   HeadResult(r, path, handle, opts, order))

RouterOptions(path, handle, opts) ==
    \E order \in RefreshOrders(r, MethodOptions) :
        Registered("Options", opts,
                   OptionsResult(r, path, handle, opts, order))

RouterPost(path, handle, opts) ==
    \E order \in RefreshOrders(r, MethodPost) :
        Registered("Post", opts,
                   PostResult(r, path, handle, opts, order))

RouterPut(path, handle, opts) ==
    \E order \in RefreshOrders(r, MethodPut) :
        Registered("Put", opts,
                   PutResult(r, path, handle, opts, order))

RouterPatch(path, handle, opts) ==
    \E order \in RefreshOrders(r, MethodPatch) :
        Registered("Patch", opts,
                   PatchResult(r, path, handle, opts, order))

RouterDelete(path, handle, opts) ==
    \E order \in RefreshOrders(r, MethodDelete) :
        Registered("Delete", opts,
                   DeleteResult(r, path, handle, opts, order))

\* Router.Lookup: the buffer a lookup takes from the pool goes to the caller
\* with the result and is never put back.
Lookup(method, path) ==
    LET gv == LookupIn(r, method, path)
    IN  /\ \E c \in IF gv.got THEN GetChoices(r, pool, bufs) ELSE {NoChoice} :
            /\ pool' = IF gv.got THEN pool \ {c.buf} ELSE pool
            /\ bufs' = Collect(bufs, pool', ctx)
            /\ last' = [NoCall EXCEPT
                            !.op = "Lookup",
                            !.found = (gv.route # NoRoute), !.tsr = gv.tsr,
                            !.got = gv.got,
                            !.cap = IF gv.got THEN getParams(r, bufs, c).cap ELSE 0]
        /\ serving' = TRUE
        /\ UNCHANGED <<r, pc, ctx, resp, lateReg>>

\* Router.ServeHTTP for the request of slot s, up to the invocation of the
\* matched route's handler (the slot is then at "handler") or, without a
\* match, to its return.  With parameters, the slice header is bound to the
\* request context and the buffer put back into the pool before the handler
\* is invoked.
ServeHTTP(s, method, path) ==
    /\ pc[s] = "idle"
    /\ \E order \in Orders(DOMAIN r.trees) :
        LET gv == LookupIn(r, method, path)
            rsp == ServeHTTPResponse(r, method, path, order)
        IN  \E c \in IF gv.got THEN GetChoices(r, pool, bufs) ELSE {NoChoice} :
                /\ IF gv.got /\ gv.route # NoRoute
                   THEN /\ ctx' = [ctx EXCEPT ![s] = [buf |-> c.buf, len |-> Len(gv.ps)]]
                        /\ pool' = putParams(pool \ {c.buf}, c.buf)
                        /\ bufs' = [bufs EXCEPT
                                       ![c.buf] = WriteParams(getParams(r, bufs, c), gv.ps)]
                   ELSE /\ ctx' = ctx
                        /\ pool' = IF gv.got THEN pool \ {c.buf} ELSE pool
                        /\ bufs' = Collect(bufs, pool', ctx)
                /\ pc' = [pc EXCEPT ![s] = IF rsp.outcome = "handler"
                                           THEN "handler" ELSE "idle"]
                /\ resp' = [resp EXCEPT ![s] = rsp]
                /\ last' = [NoCall EXCEPT
                                !.op = "ServeHTTP",
                                !.found = (gv.route # NoRoute), !.tsr = gv.tsr,
                                !.got = gv.got,
                                !.cap = IF gv.got THEN getParams(r, bufs, c).cap ELSE 0]
    /\ serving' = TRUE
    /\ UNCHANGED <<r, lateReg>>

\* The route's handler of slot s reads its parameters (GetParams) and
\* returns; ServeHTTP returns after it.
HandlerReturn(s) ==
    /\ pc[s] = "handler"
    /\ resp' = [resp EXCEPT ![s].seen =
                    IF ctx[s].buf = 0 THEN <<>>
                    ELSE SubSeq(bufs[ctx[s].buf].data, 1, ctx[s].len)]
    /\ ctx' = [ctx EXCEPT ![s] = NoCtx]
    /\ pc' = [pc EXCEPT ![s] = "idle"]
    /\ bufs' = Collect(bufs, pool, ctx')
    /\ UNCHANGED <<r, pool, last, serving, lateReg>>

(***************************************************************************)
(* Inputs.                                                                 *)
(***************************************************************************)
pRoot == <<"/">>
pA == <<"/", "a">>
pASlash == <<"/", "a", "/">>
pUpperA == <<"/", "A">>
pB == <<"/", "b">>
pBC == <<"/", "b", "/", "c">>
pX == <<"/", ":", "x">>
pXY == <<"/", ":", "x", "/", ":", "y">>
pNoSlash == <<"a">>
pDoubleA == <<"/", "/", "a">>

Handlers == {"h1"}
OptionLists == {<<>>, <<"n">>}

\* A registration call fits the bounds.
RoomFor(method) ==
    /\ Idle
    /\ RouteCount(r) < MaxRoutes
    /\ method \in DOMAIN r.trees \/ Cardinality(DOMAIN r.trees) < MaxTrees

(***************************************************************************)
(* Spec: the registration interface, on a router as NewRouter returns it.  *)
(***************************************************************************)
RegMethods == {MethodGet, MethodConnect, ""}
RegPaths == {pA, pX, pNoSlash}
FuncMethods == {MethodGet, MethodConnect}
ShortcutPaths == {pA}

Init == InitWith(DefaultConfig)

Next ==
    \/ \E m \in RegMethods, p \in RegPaths, o \in OptionLists :
            RoomFor(m) /\ Handle(m, p, "h1", o)
    \/ \E m \in FuncMethods, p \in ShortcutPaths, h \in Handlers \cup {NilHandler},
          o \in OptionLists :
            RoomFor(m) /\ HandleFunc(m, p, h, o)
    \/ \E p \in ShortcutPaths, h \in Handlers \cup {NilHandler}, o \in OptionLists :
            RoomFor(MethodGet) /\ RouterGet(p, h, o)
    \/ \E p \in ShortcutPaths, h \in Handlers \cup {NilHandler}, o \in OptionLists :
            RoomFor(MethodHead) /\ RouterHead(p, h, o)
    \/ \E p \in ShortcutPaths, h \in Handlers \cup {NilHandler}, o \in OptionLists :
            RoomFor(MethodOptions) /\ RouterOptions(p, h, o)
    \/ \E p \in ShortcutPaths, h \in Handlers \cup {NilHandler}, o \in OptionLists :
            RoomFor(MethodPost) /\ RouterPost(p, h, o)
    \/ \E p \in ShortcutPaths, h \in Handlers \cup {NilHandler}, o \in OptionLists :
            RoomFor(MethodPut) /\ RouterPut(p, h, o)
    \/ \E p \in ShortcutPaths, h \in Handlers \cup {NilHandler}, o \in OptionLists :
            RoomFor(MethodPatch) /\ RouterPatch(p, h, o)
    \/ \E p \in ShortcutPaths, h \in Handlers \cup {NilHandler}, o \in OptionLists :
            RoomFor(MethodDelete) /\ RouterDelete(p, h, o)

Spec == Init /\ [][Next]_vars

(***************************************************************************)
(* SpecPool: registrations, lookups and dispatches of one router in any    *)
(* sequential order.                                                       *)
(***************************************************************************)
PoolPatterns == {pA, pX, pXY}
PoolPaths == {pA, pB, pBC}

InitPool0 ==
    \E save \in BOOLEAN :
        InitWith([DefaultConfig EXCEPT !.SaveMatchedRoute = save])

NextPool ==
    \/ \E p \in PoolPatterns : RoomFor(MethodGet) /\ Handle(MethodGet, p, "h1", <<>>)
    \/ \E p \in PoolPaths : Idle /\ Lookup(MethodGet, p)
    \/ \E p \in PoolPaths : Idle /\ ServeHTTP(1, MethodGet, p)
    \/ HandlerReturn(1)

SpecPool == InitPool0 /\ [][NextPool]_vars

(***************************************************************************)
(* SpecDispatch: a router with any setting of its options is registered    *)
(* and then dispatches a request.  Every pattern here is static, so a      *)
(* dispatch leaves the router and its pool as they were and a second       *)
(* request would start from the state the first one started from: one      *)
(* request per behaviour reaches every (router, response) pair.            *)
(***************************************************************************)
DispatchMethods == {MethodGet, MethodPost, MethodOptions, MethodConnect}
DispatchPatterns == {pA, pASlash}
RequestMethods == {MethodGet, MethodPost, MethodOptions, MethodConnect, MethodDelete}
RequestPaths == {pA, pASlash, pUpperA, pDoubleA, pRoot, Star}

\* Every setting of the four policy switches, with the three optional
\* handlers (GlobalOPTIONS, NotFound, MethodNotAllowed) all unset or all set.
Configs ==
    {[RedirectTrailingSlash |-> rts, RedirectFixedPath |-> rfp,
      HandleMethodNotAllowed |-> hmna, HandleOPTIONS |-> ho,
      SaveMatchedRoute |-> FALSE, GlobalOPTIONS |-> custom,
      NotFound |-> custom, MethodNotAllowed |-> custom] :
        rts \in BOOLEAN, rfp \in BOOLEAN, hmna \in BOOLEAN, ho \in BOOLEAN,
        custom \in BOOLEAN}

InitDispatch == \E cfg \in Configs : InitWith(cfg)

NextDispatch ==
    \/ \E m \in DispatchMethods, p \in DispatchPatterns :
            ~serving /\ RoomFor(m) /\ Handle(m, p, "h1", <<>>)
    \/ \E m \in RequestMethods, p \in RequestPaths : ~serving /\ ServeHTTP(1, m, p)
    \/ HandlerReturn(1)

SpecDispatch == InitDispatch /\ [][NextDispatch]_vars

(***************************************************************************)
(* SpecConc: a router is fully registered, then serves concurrent          *)
(* requests.                                                               *)
(***************************************************************************)
ConcPatterns == {pX}
ConcPaths == {pA, pB}

NextConc ==
    \/ \E p \in ConcPatterns : ~serving /\ RoomFor(MethodGet) /\ Handle(MethodGet, p, "h1", <<>>)
    \/ \E s \in Slots, p \in ConcPaths : ServeHTTP(s, MethodGet, p)
    \/ \E s \in Slots : HandlerReturn(s)

SpecConc == Init /\ [][NextConc]_vars

(***************************************************************************)
(* Properties.                                                             *)
(***************************************************************************)
InFlight(s) == pc[s] = "handler"

\* The parameters the request context of slot s holds right now.
ParamsOf(s) ==
    IF ctx[s].buf = 0 THEN <<>>
    ELSE SubSeq(bufs[ctx[s].buf].data, 1, ctx[s].len)

\* C1: under concurrent ServeHTTP calls on a registered router no Params
\* buffer belongs to two in-flight requests at once, and the parameters a
\* handler reads are the ones its own request's lookup bound: another
\* request never overwrites them.
C1_BufferNeverShared ==
    /\ \A s \in Slots, t \in Slots :
          (s # t /\ InFlight(s) /\ InFlight(t) /\ ctx[s].buf # 0)
              => ctx[s].buf # ctx[t].buf
    /\ \A s \in Slots :
          InFlight(s) => ParamsOf(s) = resp[s].params
    /\ \A s \in Slots :
          (resp[s].outcome = "handler" /\ ~InFlight(s))
              => resp[s].seen = resp[s].params

(***************************************************************************)
(* The dispatch policy, on the request of slot 1.                          *)
(***************************************************************************)
Dispatched == last.op = "ServeHTTP" /\ resp[1].outcome # "none"

\* Method m has a handler registered for exactly path P.
HasHandler(m, P) ==
    m \in DOMAIN r.trees /\ \E rt \in r.trees[m] : Matches(rt.path, P)

\* The methods other than OPTIONS that have a handler for exactly P.
HandlersFor(P) == {m \in DOMAIN r.trees \ {MethodOptions} : HasHandler(m, P)}

\* The methods of T in ascending order, joined by comma and space.
Ascending(T) ==
    CHOOSE o \in Orders(T) :
        \A i \in 1..Len(o), j \in 1..Len(o) : i < j => StrLess(o[i], o[j])

AllowValue(T) == Join(Ascending(T))

\* An Allow value lists method m.
Lists(allow, m) ==
    \E T \in SUBSET (DOMAIN r.trees \cup {MethodOptions}) :
        m \in T /\ allow = AllowValue(T)

\* P with its trailing slash toggled.
Toggled(P) ==
    IF P[Len(P)] = Slash THEN SubSeq(P, 1, Len(P) - 1) ELSE P \o <<Slash>>

StatusFor(M) ==
    IF M = MethodGet THEN StatusMovedPermanently ELSE StatusPermanentRedirect

\* C2 as stated: with method-not-allowed handling enabled, a request whose
\* method M is not among the methods S (other than OPTIONS, S non-empty) that
\* have a handler for its path, and that found no handler and no redirect,
\* is answered 405 with Allow = S and OPTIONS, ascending, comma-space joined.
C2_Original ==
    Dispatched =>
        LET M == resp[1].method
            S == HandlersFor(resp[1].path)
        IN  (/\ S # {}
             /\ M \notin S
             /\ resp[1].outcome \notin {"handler", "redirect"}
             /\ r.HandleMethodNotAllowed)
            => /\ resp[1].outcome = "405"
               /\ resp[1].code = StatusMethodNotAllowed
               /\ resp[1].allow = AllowValue(S \cup {MethodOptions})

\* C2 amended: the same, except for an OPTIONS request while HandleOPTIONS is
\* enabled (which gets the automatic OPTIONS reply instead of the 405).
C2_MethodNotAllowed ==
    Dispatched =>
        LET M == resp[1].method
            S == HandlersFor(resp[1].path)
        IN  (/\ S # {}
             /\ M \notin S
             /\ ~(M = MethodOptions /\ r.HandleOPTIONS)
             /\ resp[1].outcome \notin {"handler", "redirect"}
             /\ r.HandleMethodNotAllowed)
            => /\ resp[1].outcome = "405"
               /\ resp[1].code = StatusMethodNotAllowed
               /\ resp[1].allow = AllowValue(S \cup {MethodOptions})

C2_Witness ==
    /\ Dispatched
    /\ resp[1].method = MethodDelete
    /\ HandlersFor(resp[1].path) = {MethodGet, MethodPost}
    /\ resp[1].outcome = "405"
    /\ resp[1].allow = "GET, OPTIONS, POST"

\* C3: a request whose lookup on its method's trie finds no handler but
\* gives the trailing-slash hint, with RedirectTrailingSlash enabled, a
\* method other than CONNECT and a path other than "/", is redirected to the
\* path with its trailing slash toggled, with 301 for GET and 308 otherwise,
\* and nothing else is run for it.
C3_TrailingSlashRedirect ==
    (/\ Dispatched
     /\ ~last.found
     /\ last.tsr
     /\ r.RedirectTrailingSlash
     /\ resp[1].method # MethodConnect
     /\ resp[1].path # <<Slash>>)
    => /\ resp[1].outcome = "redirect"
       /\ resp[1].via = "trailing-slash"
       /\ resp[1].location = Toggled(resp[1].path)
       /\ resp[1].code = StatusFor(resp[1].method)
       /\ resp[1].called = ""
       /\ resp[1].allow = ""

C3_Witness ==
    /\ Dispatched
    /\ last.tsr
    /\ resp[1].method = MethodPost
    /\ resp[1].path = pASlash
    /\ resp[1].outcome = "redirect"
    /\ resp[1].location = pA
    /\ resp[1].code = StatusPermanentRedirect

\* The case-insensitive lookup of the normalized request path on the trie of
\* the request method.
FixedPathOf(M, P) ==
    findCaseInsensitivePath(r.trees[M], CleanPath(P), r.RedirectTrailingSlash)

C5_Original ==
    (/\ Dispatched
     /\ resp[1].method = MethodOptions
     /\ r.HandleOPTIONS
     /\ resp[1].outcome \notin {"handler", "redirect"})
    => LET S == HandlersFor(resp[1].path)
       IN  IF S # {}
           THEN /\ resp[1].allow = AllowValue(S)
                /\ resp[1].outcome = "options"
                /\ r.GlobalOPTIONS => resp[1].called = "GlobalOPTIONS"
           ELSE resp[1].allow = ""

\* The Allow value of the automatic OPTIONS reply for path P.
OptionsAllow(P) ==
    IF P = Star THEN r.globalAllowed
    ELSE IF HandlersFor(P) = {} THEN ""
    ELSE AllowValue(HandlersFor(P) \cup {MethodOptions})

\* C5 amended: the Allow value is that list with OPTIONS added to it when it
\* is non-empty (and, for the literal path "*", the cached server-wide
\* value); non-empty, it is set as the Allow header, the GlobalOPTIONS
\* handler (when configured) is invoked and neither 405 nor 404 runs; empty,
\* no Allow header is set.
C5_AutomaticOptions ==
    (/\ Dispatched
     /\ resp[1].method = MethodOptions
     /\ r.HandleOPTIONS
     /\ resp[1].outcome \notin {"handler", "redirect"})
    => LET allow == OptionsAllow(resp[1].path)
       IN  IF allow # ""
           THEN /\ resp[1].allow = allow
                /\ resp[1].outcome = "options"
                /\ resp[1].called = IF r.GlobalOPTIONS THEN "GlobalOPTIONS" ELSE ""
           ELSE /\ resp[1].allow = ""
                /\ resp[1].outcome = "404"

C5_Witness ==
    /\ Dispatched
    /\ resp[1].method = MethodOptions
    /\ resp[1].path = pA
    /\ resp[1].outcome = "options"
    /\ resp[1].allow = "GET, OPTIONS, POST"
    /\ resp[1].called = "GlobalOPTIONS"

\* C6 as stated: in every 405 response, for every method, every path ("*"
\* included) and every setting of HandleOPTIONS, the Allow header does not
\* list the request's own method.
C6_Original ==
    (Dispatched /\ resp[1].outcome = "405")
        => ~Lists(resp[1].allow, resp[1].method)

\* C6 amended: in every 405 response to a request for a path other than "*"
\* with a method other than OPTIONS, the Allow header does not list the
\* request's own method.
C6_AllowExcludesMethod ==
    (/\ Dispatched
     /\ resp[1].outcome = "405"
     /\ resp[1].path # Star
     /\ resp[1].method # MethodOptions)
        => ~Lists(resp[1].allow, resp[1].method)

C6_Witness ==
    /\ Dispatched
    /\ resp[1].outcome = "405"
    /\ resp[1].method = MethodGet
    /\ resp[1].path = pA
    /\ MethodGet \in DOMAIN r.trees
    /\ resp[1].allow = "OPTIONS, POST"

\* What the Allow computation for (P, M) yields.
AllowFor(P, M) ==
    IF P = Star THEN r.globalAllowed
    ELSE IF HandlersFor(P) \ {M} = {} THEN ""
    ELSE AllowValue((HandlersFor(P) \ {M}) \cup {MethodOptions})

Outcomes == {"handler", "redirect", "options", "405", "404"}

\* C7 as stated: every dispatch ends in exactly one of the five outcomes, and
\* the 404 policy runs exactly when no handler matched, no redirect was
\* issued, and the applicable Allow computation is empty or its option
\* (HandleOPTIONS for OPTIONS requests, HandleMethodNotAllowed otherwise) is
\* disabled; no Allow header is set then.
C7_Original ==
    Dispatched =>
        LET M == resp[1].method
            option == IF M = MethodOptions THEN r.HandleOPTIONS
                      ELSE r.HandleMethodNotAllowed
        IN  /\ resp[1].outcome \in Outcomes
            /\ resp[1].outcome = "404"
                 <=> /\ ~last.found
                     /\ resp[1].outcome # "redirect"
                     /\ AllowFor(resp[1].path, M) = "" \/ ~option
            /\ resp[1].outcome = "404" => resp[1].allow = ""

\* C7 amended: the option that applies is HandleOPTIONS for an OPTIONS
\* request while HandleOPTIONS is enabled, and HandleMethodNotAllowed for
\* every other request, an OPTIONS request with HandleOPTIONS disabled
\* included.
C7_Outcomes ==
    Dispatched =>
        LET M == resp[1].method
            option == IF M = MethodOptions /\ r.HandleOPTIONS THEN TRUE
                      ELSE r.HandleMethodNotAllowed
        IN  /\ resp[1].outcome \in Outcomes
            /\ resp[1].outcome = "handler" <=> last.found
            /\ resp[1].outcome = "404"
                 <=> /\ ~last.found
                     /\ resp[1].outcome # "redirect"
                     /\ AllowFor(resp[1].path, M) = "" \/ ~option
            /\ resp[1].outcome = "404"
                 => /\ resp[1].allow = ""
                    /\ resp[1].code = StatusNotFound
                    /\ resp[1].called = IF r.NotFound THEN "NotFound"
                                        ELSE "http.NotFound"

C7_Witness ==
    /\ Dispatched
    /\ resp[1].outcome = "404"
    /\ resp[1].called = "NotFound"
    /\ ~r.HandleMethodNotAllowed
    /\ HandlersFor(resp[1].path) \ {resp[1].method} # {}

(***************************************************************************)
(* Registration.                                                           *)
(***************************************************************************)
\* The server-wide Allow value computed afresh from the methods that have a
\* trie.
FreshGlobal ==
    IF DOMAIN r.trees \ {MethodOptions} = {} THEN ""
    ELSE AllowValue((DOMAIN r.trees \ {MethodOptions}) \cup {MethodOptions})

\* C8: after any sequence of Handle calls the cached server-wide Allow value
\* is what a fresh computation over the current tries yields, and an Allow
\* computation for the literal path "*" with a non-empty request method
\* returns the cached value.
C8_GlobalAllowedCached ==
    /\ r.globalAllowed = FreshGlobal
    /\ \A m \in DOMAIN r.trees \cup {MethodOptions, MethodDelete} :
          \A o \in Orders(DOMAIN r.trees) :
              allowed(r, Star, m, o) = r.globalAllowed

C8_Witness ==
    /\ last.err = ""
    /\ DOMAIN r.trees = {MethodOptions, MethodPost}
    /\ r.globalAllowed = "OPTIONS, POST"

\* C9: a call of a shortcut (Get, Head, Options, Post, Put, Patch, Delete)
\* leaves the router in the state a HandleFunc call with the shortcut's
\* method and the same path, handler and options leaves it in; a route name
\* given as an option is in the named-route registry afterwards.
C9_ShortcutsAsHandleFunc ==
    [][\A p \in ShortcutPaths, h \in Handlers \cup {NilHandler}, o \in OptionLists :
          LET Same(m) ==
                  \E order \in RefreshOrders(r, m) :
                      r' = HandleFuncResult(r, m, p, h, o, order).r
          IN  /\ RouterGet(p, h, o) => Same(MethodGet)
              /\ RouterHead(p, h, o) => Same(MethodHead)
              /\ RouterOptions(p, h, o) => Same(MethodOptions)
              /\ RouterPost(p, h, o) => Same(MethodPost)
              /\ RouterPut(p, h, o) => Same(MethodPut)
              /\ RouterPatch(p, h, o) => Same(MethodPatch)
              /\ RouterDelete(p, h, o) => Same(MethodDelete)]_vars

(***************************************************************************)
(* The capacity of the buffers handed out.                                 *)
(***************************************************************************)
AllRoutes == UNION {r.trees[m] : m \in DOMAIN r.trees}

\* The maximum wildcard count across the registered patterns.
MaxWildcards ==
    IF AllRoutes = {} THEN 0
    ELSE CHOOSE n \in {countParams(rt.path) : rt \in AllRoutes} :
            \A rt \in AllRoutes : countParams(rt.path) <= n

\* C10 as stated: for registrations, lookups and dispatches in any
\* sequential order, a buffer handed out by the pool for a lookup has a
\* capacity of at least the maximum wildcard count of the patterns
\* registered at that moment.
C10_Original ==
    (last.op \in {"Lookup", "ServeHTTP"} /\ last.got)
        => last.cap >= MaxWildcards

\* The capacity does suffice while every registration precedes the first
\* lookup or dispatch: what fails is a registration that raises maxParams
\* after buffers of the old capacity went into the pool.
CapacityWhenRegisteredFirst ==
    (last.op \in {"Lookup", "ServeHTTP"} /\ last.got /\ ~lateReg)
        => last.cap >= MaxWildcards

RegisteredFirstWitness ==
    /\ last.op = "ServeHTTP"
    /\ last.got
    /\ ~lateReg
    /\ pc[1] = "handler"
    /\ Len(resp[1].params) = 2
    /\ MaxWildcards = 2
    /\ last.cap = 2

(***************************************************************************)
(* Rejected registrations.                                                 *)
(***************************************************************************)
\* The registration state of a router: its tries, the cached server-wide
\* Allow value, the named-route registry and the maximum wildcard count.
RegistrationState(rr) ==
    [trees |-> rr.trees, globalAllowed |-> rr.globalAllowed,
     routes |-> rr.routes, maxParams |-> rr.maxParams]

\* C11: a Handle call that panics (empty method, path not beginning with
\* '/', route name already registered, conflict while inserting into the
\* trie) leaves the tries, the cached server-wide Allow value, the
\* named-route registry and the maximum wildcard count as they were before
\* the call.
C11_RejectedHandleLeavesState ==
    [][(last'.op = "Handle" /\ last'.err # "")
          => RegistrationState(r') = RegistrationState(r)]_vars

====
